---- MODULE Spec2Model ----
(***************************************************************************)
(* A model of the statesman transition engine (src/statesman.py):          *)
(* StateMachine.trigger / StateMachine.enter_state build a Transition and  *)
(* Transition.__call__ runs it through the guard, before, exit, on, entry  *)
(* and after steps.  Hooks and actions are callbacks of unknown behaviour: *)
(* each one returns a value or raises, chosen nondeterministically.        *)
(* Actions of one phase are run with asyncio.gather: they are started      *)
(* together, return in any order, and the first one that raises ends the   *)
(* wait while its siblings keep running.                                   *)
(***************************************************************************)
EXTENDS Naturals, Sequences, FiniteSets

\* ------------------------------------------------------------------ bounds

\* Calls of trigger / enter_state made in one behaviour.
MaxCalls == 2
\* Actions of each type attached to every state and every event.
NumActions == 2
\* Largest reading of the wall clock (datetime.datetime.now()).
MaxClock == 2
\* Longest list of states, and of events, a machine is constructed from.
MaxInitLen == 2
\* --------------------------------------------------------------- the values

\* Python's None.
NULL == "None"

\* State.active(): the active-state sentinel.
ACTIVE == "__active__"

\* Transition.Types.
External == "external"
Internal == "internal"
Self == "self"
TransitionTypes == {External, Internal, Self}

\* Action.Types.
ActionTypes == {"entry", "exit", "guard", "before", "on", "after"}

\* The four overridable hooks of StateMachine.
Hooks == {"guard_transition", "before_transition", "on_transition", "after_transition"}

\* The registered states of the machine under test (StateMachine._states).
States == {"Off", "On"}

\* The registered events of the machine under test (StateMachine._events).
Events ==
    { [name |-> "start",    sources |-> {NULL},        target |-> "Off",  transition_type |-> NULL],
      [name |-> "turn_on",  sources |-> {"Off"},       target |-> "On",   transition_type |-> NULL],
      [name |-> "turn_off", sources |-> {"On"},        target |-> "Off",  transition_type |-> NULL],
      [name |-> "refresh",  sources |-> {"Off", "On"}, target |-> ACTIVE, transition_type |-> Internal],
      [name |-> "reset",    sources |-> {"On"},        target |-> "On",   transition_type |-> Self],
      [name |-> "noop",     sources |-> {NULL, "Off"}, target |-> ACTIVE, transition_type |-> NULL],
      [name |-> "force",    sources |-> {"Off"},       target |-> "On",   transition_type |-> Internal] }

\* The lists the machine under test was constructed from.
StateList == <<"Off", "On">>
EventNameList == <<"start", "turn_on", "turn_off", "refresh", "reset", "noop", "force">>
EventList ==
    [i \in DOMAIN EventNameList |-> CHOOSE e \in Events : e.name = EventNameList[i]]

EventNames == {e.name : e \in Events}

\* Names a caller may pass: the registered ones and one that is not registered.
Unknown == "missing"

\* The callers that use the machine; each makes one call at a time.
Callers == {"c1", "c2"}

\* What a callback does: it returns a value or raises.
Raises == {"AssertionError", "Exception"}
ReturnValues == {"True", "False", NULL}
Outcomes == ReturnValues \cup Raises

\* Python truthiness of a returned value.
Truthy(v) == v = "True"

\* A time that was not recorded (started_at / finished_at of None); the clock
\* reads 1 or more.
NoTime == 0

\* The slot of a caller whose call built no Transition.
NoTransition ==
    [source |-> NULL, target |-> NULL, event |-> NULL, type |-> NULL,
     started_at |-> NoTime, finished_at |-> NoTime, cancelled |-> NULL]

\* Transition.__init__: a new Transition; started_at, finished_at and
\* cancelled are None until it is called.
NewTransition(src, tgt, ev, type) ==
    [source |-> src, target |-> tgt, event |-> ev, type |-> type,
     started_at |-> NoTime, finished_at |-> NoTime, cancelled |-> NULL]

\* The calls of the machine's two entry points.
NoCall == [op |-> "none", name |-> NULL, type_ |-> NULL]
TriggerCall(name) == [op |-> "trigger", name |-> name, type_ |-> NULL]
EnterStateCall(name, given) == [op |-> "enter_state", name |-> name, type_ |-> given]

\* What a call gave back to its caller.
Pending == [kind |-> "pending", what |-> NULL, event |-> NULL, state |-> NULL]
Returned(v) == [kind |-> "return", what |-> v, event |-> NULL, state |-> NULL]
Raised(exc, msg, ev, st) == [kind |-> exc, what |-> msg, event |-> ev, state |-> st]

VARIABLES
    state,      \* StateMachine._state: the current-state pointer
    now,        \* the wall clock
    tr,         \* tr[c]: the Transition built by caller c's latest call
    pc,         \* pc[c]: where that Transition's __call__ stands
    running,    \* running[c]: the actions of that Transition started and not returned
    results,    \* results[c]: what the hooks and actions of that Transition returned or raised
    late,       \* late[c]: what actions returned or raised after that Transition left __call__
    outcome,    \* outcome[c]: what the latest call gave back to caller c
    log,        \* log[c]: hooks and actions invoked and pointer writes, in order
    recall,     \* recall[c]: what re-invoking tr[c] gave back
    call,       \* call[c]: the latest call of caller c
    before,     \* before[c]: the current-state pointer when that call was made
    ncalls,     \* calls made so far
    last,       \* target of the latest Transition that passed its mutation phase
    stale,      \* stale[c]: exit actions of that Transition started on another current state
    _states,    \* StateMachine._states: the registered states, in order
    _events,    \* StateMachine._events: the registered events, in order
    op,         \* the latest operation on the registry and how it ended
    has_history,    \* the class of the machine mixes HistoryMixin in
    _transitions,   \* HistoryMixin._transitions: the recorded Transitions, in order
    signature,  \* the parameters of the callable (hook or action) being invoked
    supplied,   \* the *args and **kwargs given to trigger / enter_state
    route,      \* how the callable is reached: as a machine hook or as an action
    pools,      \* the *args and **kwargs handed to _parameters_matching_signature
    matched,    \* matched_args and matched_kwargs, its result
    bound       \* how callable(*matched_args, **matched_kwargs) bound its parameters

registry == <<_states, _events, op>>
recorder == <<has_history, _transitions>>
matcher == <<signature, supplied, route, pools, matched, bound>>
engine == <<now, tr, pc, running, results, late, outcome, log, recall, call, before,
            ncalls, last, stale>>

vars == <<state, now, tr, pc, running, results, late, outcome, log, recall, call, before,
          ncalls, last, stale, _states, _events, op, has_history, _transitions,
          signature, supplied, route, pools, matched, bound>>


\* ------------------------------------------------------- pure definitions

EventNamed(n) == CHOOSE e \in Events : e.name = n

\* Mutant: the configured type of the event is ignored.
DefaultType_AlwaysExternal(given, ev) == IF given # NULL THEN given ELSE External

\* Transition._set_default_type_from_event: the type of a Transition built
\* without one (given = NULL) comes from the event, or is external.
DefaultType(given, ev) ==
    IF given # NULL THEN given
    ELSE IF ev # NULL
         THEN (IF EventNamed(ev).transition_type # NULL
               THEN EventNamed(ev).transition_type ELSE External)
         ELSE External

\* Mutant: the type is not checked against source and target.
ValidType_Unchecked(type, source, target) == TRUE

\* Transition._validate_type.
ValidType(type, source, target) ==
    IF type \in {Internal, Self} THEN target = source
    ELSE IF type = External THEN target # source
    ELSE FALSE

\* Mutant: the sources of the event are not consulted.
SourceAllowed_Always(e, current) == TRUE

\* Mutant: a machine without a current state may trigger any event.
SourceAllowed_AnyInitial(e, current) == current = NULL \/ current \in e.sources

\* StateMachine.trigger: the current state must be one of the event's sources.
SourceAllowed(e, current) == current \in e.sources

\* Mutant: the target of the event is passed on as it is.
ResolveTarget_KeepsSentinel(e, current) == e.target

\* StateMachine.trigger: the active-state sentinel stands for the current state.
ResolveTarget(e, current) == IF e.target = ACTIVE THEN current ELSE e.target

\* Mutant: entering the current state is not recognised as a self transition.
InferType_AlwaysExternal(given, current, target) ==
    IF given # NULL THEN given ELSE External

\* StateMachine.enter_state: the inferred transition type.
InferType(given, current, target) ==
    IF given # NULL THEN given
    ELSE IF current = target THEN Self ELSE External

\* Mutant: only a finished Transition is refused.
AlreadyExecuted_FinishedOnly(t) == t.finished_at # NoTime

\* Transition.__call__: a Transition that was started is not run again.
AlreadyExecuted(t) == t.started_at # NoTime

\* Transition.__call__: the answer of the guard_transition hook.
GuardHookAccepts(v) == v \in ReturnValues /\ Truthy(v)

\* Mutant: one truthy guard action is enough.
GuardActionsAccept_AnyTruthy(rs) ==
    IF rs = {} THEN TRUE ELSE \E r \in rs : Truthy(r.value)

\* Transition.__call__: the values returned by the guard actions, combined.
GuardActionsAccept(rs) ==
    IF rs = {} THEN TRUE ELSE \A r \in rs : Truthy(r.value)

\* Mutant: whatever the guard phase raises cancels.
IsRejection_AnyFailure(phase, exc) == phase \in {"guard_transition", "guard"}

\* Transition.__call__: an exception that cancels instead of propagating.
IsRejection(phase, exc) ==
    phase \in {"guard_transition", "guard"} /\ exc = "AssertionError"

\* Mutant: exit and entry actions run for every type.
RunsExitEntry_Always(type) == TRUE

\* Mutant: exit and entry actions run for external transitions only.
RunsExitEntry_ExternalOnly(type) == type = External

\* Transition.__call__: the types whose exit and entry actions run.
RunsExitEntry(type) == type \in {External, Self}

\* Mutant: the after phase is rolled back as well.
InMutation_WithAfter(phase) ==
    phase \in {"exit", "on_transition", "on", "entry", "after", "after_transition"}

\* Transition.__call__: the steps inside the try block that rolls back.
InMutation(phase) == phase \in {"exit", "on_transition", "on", "entry"}

\* Mutant: a failure leaves the pointer where it is.
PointerAfterFailure_NoRollback(phase, t, current) == current

\* Mutant: the rollback clears the pointer.
PointerAfterFailure_Clears(phase, t, current) ==
    IF InMutation(phase) THEN NULL ELSE current

\* Transition.__call__: the pointer after a failure in `phase`.
PointerAfterFailure(phase, t, current) ==
    IF InMutation(phase) THEN t.source ELSE current

\* Transition._lifecycle: finished_at is written when the block is left.
Lifecycle(t, clock, how) == [t EXCEPT !.finished_at = clock]

\* Transition._run_actions / BaseModel._get_actions: the actions of a type
\* attached to the model the Transition runs them on (none on a null model).
ActionOwner(t, type) ==
    IF type = "exit" THEN t.source
    ELSE IF type = "entry" THEN t.target
    ELSE t.event

ActionsOf(t, type) ==
    IF ActionOwner(t, type) = NULL THEN {}
    ELSE {<<type, i>> : i \in 1..NumActions}

\* What a callback of a kind can do: only guards have a meaningful value.
HookOutcomes(h) ==
    IF h = "guard_transition" THEN Outcomes ELSE {NULL} \cup Raises

ActionOutcomes(type) ==
    IF type = "guard" THEN Outcomes ELSE {NULL} \cup Raises

\* Entries of the log.
HookEntry(h) == [op |-> "hook", what |-> h, idx |-> 0]
ActionEntry(type, i) == [op |-> "action", what |-> type, idx |-> i]
SetEntry(s) == [op |-> "set", what |-> s, idx |-> 0]
RevertEntry(s) == [op |-> "revert", what |-> s, idx |-> 0]

\* The actions of a phase are invoked in the order they were attached.
ActionEntries(t, type) ==
    [i \in 1..Cardinality(ActionsOf(t, type)) |-> ActionEntry(type, i)]

\* The clock does not run backwards.
Later == {k \in now..(now + 1) : k <= MaxClock}


\* ------------------------------------------------------------ the machine

\* StateMachine.__init__: the machine starts with no current state or in one
\* of its states, and runs nothing.
NoOp == [kind |-> "none", arg |-> NULL, raised |-> NULL]

\* No positional and no keyword values.
NoValues == [args |-> <<>>, kwargs |-> {}]

\* Nothing was called.
NotCalled == [called |-> FALSE, raised |-> {}, named |-> {}, star |-> <<>>, starstar |-> {}]

\* No callable is being invoked.
NothingInvoked ==
    /\ signature = <<>>
    /\ supplied = NoValues
    /\ route = NULL
    /\ pools = NoValues
    /\ matched = NoValues
    /\ bound = NotCalled

\* No call has been made and nothing runs.
InitEngine ==
    /\ now = 1
    /\ tr = [c \in Callers |-> NoTransition]
    /\ pc = [c \in Callers |-> "idle"]
    /\ running = [c \in Callers |-> {}]
    /\ results = [c \in Callers |-> {}]
    /\ late = [c \in Callers |-> {}]
    /\ outcome = [c \in Callers |-> Pending]
    /\ log = [c \in Callers |-> <<>>]
    /\ recall = [c \in Callers |-> "none"]
    /\ call = [c \in Callers |-> NoCall]
    /\ before = [c \in Callers |-> NULL]
    /\ ncalls = 0
    /\ stale = [c \in Callers |-> FALSE]

\* StateMachine(states, events, state=given): what the constructor leaves in
\* the current-state pointer, and what it invokes on the way. An initial
\* state is looked up and assigned; neither enter_state nor a hook nor an
\* action is called (StateMachine.create is the constructor without a state
\* followed by enter_state).
InitialState(given) == given

InitialInvocations_EntersState(given) ==
    IF given = NULL THEN <<>>
    ELSE [i \in 1..NumActions |-> ActionEntry("entry", i)]

InitialInvocations(given) == <<>>

Init ==
    /\ \E given \in {NULL} \cup States :
          /\ state = InitialState(given)
          /\ last = given
    /\ _states = StateList
    /\ _events = EventList
    /\ op = NoOp
    /\ has_history = FALSE
    /\ _transitions = <<>>
    /\ NothingInvoked
    /\ now = 1
    /\ tr = [c \in Callers |-> NoTransition]
    /\ pc = [c \in Callers |-> "idle"]
    /\ running = [c \in Callers |-> {}]
    /\ results = [c \in Callers |-> {}]
    /\ late = [c \in Callers |-> {}]
    /\ outcome = [c \in Callers |-> Pending]
    /\ log = [c \in Callers |-> InitialInvocations(state)]
    /\ recall = [c \in Callers |-> "none"]
    /\ call = [c \in Callers |-> NoCall]
    /\ before = [c \in Callers |-> NULL]
    /\ ncalls = 0
    /\ stale = [c \in Callers |-> FALSE]

Idle(c) == pc[c] \in {"idle", "done"}

\* Callers serialize their calls: a call starts when no other is under way.
CanCall(c) == /\ ncalls < MaxCalls
              /\ \A d \in Callers : Idle(d)

\* The frame of a call made by caller c: running[c] now follows the actions
\* of the new Transition (those that a failed phase of the previous one left
\* running are no longer followed; nothing waits for them).
NewCall(c, what) ==
    /\ ncalls' = ncalls + 1
    /\ call' = [call EXCEPT ![c] = what]
    /\ before' = [before EXCEPT ![c] = state]
    /\ running' = [running EXCEPT ![c] = {}]
    /\ results' = [results EXCEPT ![c] = {}]
    /\ late' = [late EXCEPT ![c] = {}]
    /\ stale' = [stale EXCEPT ![c] = FALSE]
    /\ recall' = [recall EXCEPT ![c] = "none"]
    /\ UNCHANGED <<registry, recorder, matcher>>

\* A call that raises before it builds a Transition.
Refuse(c, what, exc) ==
    /\ NewCall(c, what)
    /\ tr' = [tr EXCEPT ![c] = NoTransition]
    /\ pc' = [pc EXCEPT ![c] = "done"]
    /\ outcome' = [outcome EXCEPT ![c] = exc]
    /\ log' = [log EXCEPT ![c] = <<>>]
    /\ UNCHANGED <<state, now, last>>

\* Transition.__call__ up to its first suspension point: started_at is
\* recorded, cancelled is cleared and the guard_transition hook is invoked.
Begin(c, t) ==
    /\ tr' = [tr EXCEPT ![c] = [t EXCEPT !.started_at = now, !.cancelled = "False"]]
    /\ pc' = [pc EXCEPT ![c] = "guard_transition"]
    /\ outcome' = [outcome EXCEPT ![c] = Pending]
    /\ log' = [log EXCEPT ![c] = <<HookEntry("guard_transition")>>]
    /\ UNCHANGED <<state, now, last>>

\* Transition(...) followed by transition(*args): construction validates the
\* type against source and target, then the Transition is called.
BuildAndRun(c, what, src, tgt, ev, given) ==
    LET type == DefaultType(given, ev)
        t == NewTransition(src, tgt, ev, type)
    IN  IF ~ValidType(type, src, tgt)
        THEN Refuse(c, what, Raised("ValidationError", "type", NULL, NULL))
        ELSE /\ ~AlreadyExecuted(t)
             /\ NewCall(c, what)
             /\ Begin(c, t)

\* StateMachine.trigger(event), up to the first suspension point of the
\* Transition it builds.
TriggerBody(c, name) ==
    /\ IF name \notin EventNames
       THEN Refuse(c, TriggerCall(name), Raised("LookupError", "no event", name, NULL))
       ELSE LET e == EventNamed(name)
                target == ResolveTarget(e, state)
            IN  IF ~SourceAllowed(e, state)
                THEN IF state # NULL
                     THEN Refuse(c, TriggerCall(name), Raised("RuntimeError", "cannot be triggered from the current state",
                                           name, state))
                     ELSE Refuse(c, TriggerCall(name), Raised("RuntimeError", "does not support initial state transitions",
                                           name, NULL))
                ELSE IF state = NULL /\ target = NULL
                THEN Refuse(c, TriggerCall(name), Raised("RuntimeError", "None to None", NULL, NULL))
                ELSE BuildAndRun(c, TriggerCall(name), state, target, name, NULL)

\* StateMachine.enter_state(state, type_=given), up to the first suspension
\* point of the Transition it builds.
EnterStateBody(c, name, given) ==
    /\ IF name \notin States
       THEN Refuse(c, EnterStateCall(name, given), Raised("LookupError", "no state", NULL, name))
       ELSE BuildAndRun(c, EnterStateCall(name, given), state, name, NULL,
                        InferType(given, state, name))

\* A serialized caller calls trigger.
Trigger(c, name) == CanCall(c) /\ TriggerBody(c, name)

\* A serialized caller calls enter_state.
EnterState(c, name, given) == CanCall(c) /\ EnterStateBody(c, name, given)


\* ------------------------------------------------- Transition.__call__

\* Mutant: the pointer is set before the exit actions run.
NextStep_SetBeforeExit(step, t) ==
    CASE step = "guard_transition"  -> "before_transition"
      [] step = "before_transition" -> "guard"
      [] step = "guard"             -> "before"
      [] step = "before"            -> "set"
      [] step = "set"               -> IF RunsExitEntry(t.type) THEN "exit" ELSE "on_transition"
      [] step = "exit"              -> "on_transition"
      [] step = "on_transition"     -> "on"
      [] step = "on"                -> IF RunsExitEntry(t.type) THEN "entry" ELSE "after"
      [] step = "entry"             -> "after"
      [] step = "after"             -> "after_transition"
      [] step = "after_transition"  -> "return"

\* Mutant: the after_transition hook runs before the after actions.
NextStep_AfterHookFirst(step, t) ==
    CASE step = "guard_transition"  -> "before_transition"
      [] step = "before_transition" -> "guard"
      [] step = "guard"             -> "before"
      [] step = "before"            -> IF RunsExitEntry(t.type) THEN "exit" ELSE "set"
      [] step = "exit"              -> "set"
      [] step = "set"               -> "on_transition"
      [] step = "on_transition"     -> "on"
      [] step = "on"                -> IF RunsExitEntry(t.type) THEN "entry" ELSE "after_transition"
      [] step = "entry"             -> "after_transition"
      [] step = "after_transition"  -> "after"
      [] step = "after"             -> "return"

\* Transition.__call__: the step that follows `step` when it raised nothing
\* and cancelled nothing.
NextStep(step, t) ==
    CASE step = "guard_transition"  -> "before_transition"
      [] step = "before_transition" -> "guard"
      [] step = "guard"             -> "before"
      [] step = "before"            -> IF RunsExitEntry(t.type) THEN "exit" ELSE "set"
      [] step = "exit"              -> "set"
      [] step = "set"               -> "on_transition"
      [] step = "on_transition"     -> "on"
      [] step = "on"                -> IF RunsExitEntry(t.type) THEN "entry" ELSE "after"
      [] step = "entry"             -> "after"
      [] step = "after"             -> "after_transition"
      [] step = "after_transition"  -> "return"

\* The Transition leaves __call__: _lifecycle records finished_at, the caller
\* gets `out` and the pointer is `ptr`.
Leave(c, t, out, ptr) ==
    /\ \E k \in Later :
          /\ now' = k
          /\ tr' = [tr EXCEPT ![c] = Lifecycle(t, k, out.kind)]
    /\ pc' = [pc EXCEPT ![c] = "done"]
    /\ outcome' = [outcome EXCEPT ![c] = out]
    /\ state' = ptr
    /\ UNCHANGED <<last, stale>>

\* Mutant: a rejected Transition is not marked as cancelled.
Cancel_Unmarked(c) ==
    /\ Leave(c, tr[c], Returned("False"), state)
    /\ UNCHANGED log

\* A guard rejected the Transition: cancelled is set and the call returns False.
Cancel(c) ==
    /\ Leave(c, [tr[c] EXCEPT !.cancelled = "True"], Returned("False"), state)
    /\ UNCHANGED log

\* A hook or an action of `step` raised exc.
Fail(c, step, exc) ==
    IF IsRejection(step, exc)
    THEN Cancel(c)
    ELSE /\ Leave(c, tr[c], Raised(exc, step, tr[c].event, NULL),
                  PointerAfterFailure(step, tr[c], state))
         /\ log' = [log EXCEPT ![c] = IF InMutation(step)
                                        THEN Append(@, RevertEntry(tr[c].source))
                                        ELSE @]

\* Control reaches step `next` with the log lg: a hook is invoked, the
\* actions of a phase are started together, or the call returns True.
Goto(c, next, lg) ==
    IF next = "return"
    THEN /\ Leave(c, tr[c], Returned("True"), state)
         /\ log' = [log EXCEPT ![c] = lg]
         /\ UNCHANGED running
    ELSE /\ pc' = [pc EXCEPT ![c] = next]
         /\ running' = [running EXCEPT ![c] =
                           IF next \in ActionTypes THEN ActionsOf(tr[c], next) ELSE @]
         /\ log' = [log EXCEPT ![c] =
                       IF next \in Hooks THEN Append(lg, HookEntry(next))
                       ELSE IF next \in ActionTypes THEN lg \o ActionEntries(tr[c], next)
                       ELSE lg]
         /\ last' = IF next = "after" THEN tr[c].target ELSE last
         /\ stale' = [stale EXCEPT ![c] = @ \/ (next = "exit" /\ state # tr[c].source)]
         /\ UNCHANGED <<tr, outcome, state, now>>

\* What a hook (<<hook, 0>>) or an action (<<type, i>>) returned or raised.
Result(who, v) == [who |-> who, value |-> v]

\* The values the actions of one phase returned (the list asyncio.gather
\* hands back).
ResultsOf(c, type) == {r \in results[c] : r.who[1] = type /\ r.value \in ReturnValues}

\* HistoryMixin.after_transition is the after_transition hook of a machine
\* with history: it appends the Transition and returns None.
Records(hook) == has_history /\ hook = "after_transition"

\* An element of the history: a reference to the Transition of call number n
\* (what is read through it is the Transition as it is when the call is over).
HistoryEntry(n, t) == [call |-> n, transition |-> t]

\* A hook returns v or raises v.
HookReturns(c, v) ==
    /\ pc[c] \in Hooks
    /\ v \in HookOutcomes(pc[c])
    /\ Records(pc[c]) => v = NULL
    /\ results' = [results EXCEPT ![c] = @ \cup {Result(<<pc[c], 0>>, v)}]
    /\ IF v \in Raises
       THEN Fail(c, pc[c], v) /\ UNCHANGED running
       ELSE IF pc[c] = "guard_transition" /\ ~GuardHookAccepts(v)
       THEN Fail(c, pc[c], "AssertionError") /\ UNCHANGED running
       ELSE Goto(c, NextStep(pc[c], tr[c]), log[c])
    /\ _transitions' = IF Records(pc[c])
                       THEN Append(_transitions, HistoryEntry(ncalls, tr'[c]))
                       ELSE _transitions
    /\ UNCHANGED <<late, recall, call, before, ncalls, registry, has_history, matcher>>

\* An action of the phase under way returns v or raises v; the first action
\* that raises ends the wait of asyncio.gather, with its siblings still running.
ActionReturns(c, a, v) ==
    /\ pc[c] \in ActionTypes
    /\ a \in running[c]
    /\ a[1] = pc[c]
    /\ v \in ActionOutcomes(a[1])
    /\ running' = [running EXCEPT ![c] = @ \ {a}]
    /\ results' = [results EXCEPT ![c] = @ \cup {Result(a, v)}]
    /\ IF v \in Raises
       THEN Fail(c, pc[c], v)
       ELSE UNCHANGED <<tr, pc, outcome, log, state, now, last, stale>>
    /\ UNCHANGED <<late, recall, call, before, ncalls, registry, recorder, matcher>>

\* asyncio.gather returns once every action of the phase has returned (at
\* once when there is none); the guard phase then decides.
Join(c) ==
    /\ pc[c] \in ActionTypes
    /\ running[c] = {}
    /\ IF pc[c] = "guard" /\ ~GuardActionsAccept(ResultsOf(c, "guard"))
       THEN Fail(c, pc[c], "AssertionError") /\ UNCHANGED running
       ELSE Goto(c, NextStep(pc[c], tr[c]), log[c])
    /\ UNCHANGED <<results, late, recall, call, before, ncalls, registry, recorder, matcher>>

\* self.state_machine._state = self.target
SetState(c) ==
    /\ pc[c] = "set"
    /\ state' = tr[c].target
    /\ LET next == NextStep("set", tr[c])
           lg == Append(log[c], SetEntry(tr[c].target))
       IN  /\ pc' = [pc EXCEPT ![c] = next]
           /\ running' = [running EXCEPT ![c] =
                             IF next \in ActionTypes THEN ActionsOf(tr[c], next) ELSE @]
           /\ log' = [log EXCEPT ![c] =
                         IF next \in Hooks THEN Append(lg, HookEntry(next))
                         ELSE IF next \in ActionTypes THEN lg \o ActionEntries(tr[c], next)
                         ELSE lg]
    /\ UNCHANGED <<tr, results, late, outcome, now, recall, call, before, ncalls, last,
                   stale, registry, recorder, matcher>>

\* An action whose Transition has left __call__ returns v or raises v; nobody
\* waits for it and what it gives back is dropped.
OrphanReturns(c, a, v) ==
    /\ Idle(c)
    /\ a \in running[c]
    /\ v \in ActionOutcomes(a[1])
    /\ running' = [running EXCEPT ![c] = @ \ {a}]
    /\ late' = [late EXCEPT ![c] = @ \cup {Result(a, v)}]
    /\ UNCHANGED <<state, now, tr, pc, results, outcome, log, recall, call, before,
                   ncalls, last, stale, registry, recorder, matcher>>

\* The Transition of caller c is called once more (by a hook, an action or
\* the caller, all of which hold a reference to it).
Reinvoke(c) ==
    /\ tr[c] # NoTransition
    /\ recall[c] = "none"
    /\ IF AlreadyExecuted(tr[c])
       THEN /\ recall' = [recall EXCEPT ![c] = "RuntimeError"]
            /\ UNCHANGED <<state, now, tr, pc, running, results, outcome, log, last>>
       ELSE /\ recall' = [recall EXCEPT ![c] = "executed"]
            /\ Begin(c, tr[c])
            /\ UNCHANGED <<running, results>>
    /\ UNCHANGED <<late, call, before, ncalls, stale, registry, recorder, matcher>>

AllActions == {<<type, i>> : type \in ActionTypes, i \in 1..NumActions}

\* One caller uses the machine (serialized use).
Next ==
    \/ \E name \in EventNames \cup {Unknown} : Trigger("c1", name)
    \/ \E name \in States \cup {Unknown}, given \in TransitionTypes \cup {NULL} :
          EnterState("c1", name, given)
    \/ \E v \in Outcomes : HookReturns("c1", v)
    \/ \E a \in AllActions, v \in Outcomes : ActionReturns("c1", a, v)
    \/ Join("c1")
    \/ SetState("c1")
    \/ \E a \in AllActions, v \in Outcomes : OrphanReturns("c1", a, v)
    \/ Reinvoke("c1")

Spec == Init /\ [][Next]_vars


\* ------------------------------------------------ a machine with history

\* The machine under test, of a class that mixes HistoryMixin in.
InitHistory ==
    /\ state \in {NULL} \cup States
    /\ last = state
    /\ _states = StateList
    /\ _events = EventList
    /\ op = NoOp
    /\ has_history = TRUE
    /\ _transitions = <<>>
    /\ NothingInvoked
    /\ InitEngine

\* HistoryMixin.clear_history.
ClearHistory ==
    /\ has_history
    /\ _transitions' = <<>>
    /\ UNCHANGED <<state, engine, registry, has_history, matcher>>

NextHistory ==
    \/ \E name \in EventNames \cup {Unknown} : Trigger("c1", name)
    \/ \E name \in States \cup {Unknown}, given \in TransitionTypes \cup {NULL} :
          EnterState("c1", name, given)
    \/ \E v \in Outcomes : HookReturns("c1", v)
    \/ \E a \in AllActions, v \in Outcomes : ActionReturns("c1", a, v)
    \/ Join("c1")
    \/ SetState("c1")
    \/ \E a \in AllActions, v \in Outcomes : OrphanReturns("c1", a, v)
    \/ ClearHistory

SpecHistory == InitHistory /\ [][NextHistory]_vars


\* ------------------------------------------------------- the registry

Range(q) == {q[i] : i \in DOMAIN q}
SeqsUpTo(S, n) == UNION {[1..k -> S] : k \in 0..n}

\* list.remove: the first element equal to x is taken out.
RemoveFirst(q, x) ==
    LET i == CHOOSE j \in DOMAIN q : q[j] = x /\ \A k \in 1..(j - 1) : q[k] # x
    IN  SubSeq(q, 1, i - 1) \o SubSeq(q, i + 1, Len(q))

\* An event with the name of a registered one and other sources and target.
Twin == [name |-> "turn_on", sources |-> {"On"}, target |-> "Off", transition_type |-> NULL]

\* The events offered to the constructor, add_event and remove_event.
CandidateEvents == {EventNamed("turn_on"), EventNamed("start"), EventNamed("refresh"), Twin}

\* Event.states: the states an event references, the target as it is given.
EventStates(e) == (e.sources \cup {e.target}) \ {NULL}

\* StateMachine.get_state / get_event: is the name registered.
HasState(name) == \E i \in DOMAIN _states : _states[i] = name
HasEvent(name) == \E i \in DOMAIN _events : _events[i].name = name

\* StateMachine.__init__: the lists given are taken as they are; the initial
\* state is none or one of the states given.
InitRegistry ==
    /\ _states \in SeqsUpTo(States, MaxInitLen)
    /\ _events \in SeqsUpTo(CandidateEvents, MaxInitLen)
    /\ state \in {NULL} \cup Range(_states)
    /\ last = state
    /\ op = NoOp
    /\ has_history = FALSE
    /\ _transitions = <<>>
    /\ NothingInvoked
    /\ InitEngine

\* An operation on the registry ends: it returned, or raised `raised`.
Ends(kind, arg, raised) ==
    /\ op' = [kind |-> kind, arg |-> arg, raised |-> raised]
    /\ UNCHANGED <<state, engine, recorder, matcher>>

\* StateMachine.add_state(State(s)).
AddState(s) ==
    IF HasState(s)
    THEN Ends("add_state", s, "ValueError") /\ UNCHANGED <<_states, _events>>
    ELSE /\ _states' = Append(_states, s)
         /\ Ends("add_state", s, NULL)
         /\ UNCHANGED _events

\* StateMachine.remove_state(State(s)): the events that reference s are
\* removed, then s is taken out of the list of states, which raises when it
\* is not there.
RemoveState(s) ==
    LET Keeps(e) == s \notin EventStates(e)
    IN  /\ _events' = SelectSeq(_events, Keeps)
        /\ IF s \in Range(_states)
           THEN _states' = RemoveFirst(_states, s) /\ Ends("remove_state", s, NULL)
           ELSE UNCHANGED _states /\ Ends("remove_state", s, "ValueError")

\* StateMachine.add_event(e).
AddEvent(e) ==
    IF HasEvent(e.name) \/ EventStates(e) \ Range(_states) # {}
    THEN Ends("add_event", e, "ValueError") /\ UNCHANGED <<_states, _events>>
    ELSE /\ _events' = Append(_events, e)
         /\ Ends("add_event", e, NULL)
         /\ UNCHANGED _states

\* StateMachine.remove_event(e).
RemoveEvent(e) ==
    IF e \in Range(_events)
    THEN /\ _events' = RemoveFirst(_events, e)
         /\ Ends("remove_event", e, NULL)
         /\ UNCHANGED _states
    ELSE Ends("remove_event", e, "ValueError") /\ UNCHANGED <<_states, _events>>

NextRegistry ==
    \/ \E s \in States : AddState(s)
    \/ \E s \in States : RemoveState(s)
    \/ \E e \in CandidateEvents : AddEvent(e)
    \/ \E e \in CandidateEvents : RemoveEvent(e)

SpecRegistry == InitRegistry /\ [][NextRegistry]_vars


\* ------------------------------------------------- parameter matching

\* Longest signature, and longest list of positional values supplied.
MaxParams == 2
MaxArgs == 2

\* inspect.Parameter kinds, in the order Python lets a signature list them.
PositionalOnly == "POSITIONAL_ONLY"
PositionalOrKeyword == "POSITIONAL_OR_KEYWORD"
VarPositional == "VAR_POSITIONAL"
KeywordOnly == "KEYWORD_ONLY"
VarKeyword == "VAR_KEYWORD"

KindRank(kind) ==
    CASE kind = PositionalOnly -> 1
      [] kind = PositionalOrKeyword -> 2
      [] kind = VarPositional -> 3
      [] kind = KeywordOnly -> 4
      [] kind = VarKeyword -> 5

\* The Transition handed to hooks and actions, and the values a caller
\* supplies; keyword values are supplied under the names in KeyNames.
TheTransition == "T"
Values == {"v1", "v2"}
KeyNames == {"x"}

\* The parameters a callable may declare. Parameters have no default values.
Parameters ==
    {[name |-> n, kind |-> k] :
        n \in {"transition", "x"},
        k \in {PositionalOnly, PositionalOrKeyword, KeywordOnly}}
    \cup {[name |-> "self", kind |-> PositionalOrKeyword],
          [name |-> "args", kind |-> VarPositional],
          [name |-> "kwargs", kind |-> VarKeyword]}

\* The signatures Python accepts: names differ and kinds come in order.
Signatures ==
    {sig \in SeqsUpTo(Parameters, MaxParams) :
        /\ \A i, j \in DOMAIN sig : i < j =>
              /\ sig[i].name # sig[j].name
              /\ KindRank(sig[i].kind) <= KindRank(sig[j].kind)
              /\ sig[j].name # "self"}

\* Keyword values: a set of <<name, value>> with one value per name.
KeywordPools(names, values) ==
    {k \in SUBSET (names \X values) :
        \A p, q \in k : p[1] = q[1] => p = q}

Keys(k) == {p[1] : p \in k}
ValueOf(k, name) == (CHOOSE p \in k : p[1] = name)[2]
Without(k, name) == {p \in k : p[1] # name}

\* The loop of _parameters_matching_signature over the parameters left, with
\* args_copy = a, kwargs_copy = k, matched_args = ma and matched_kwargs = mk;
\* as Match but a keyword match leaves the positional values alone.
RECURSIVE Match_KeepsPositional(_, _, _, _, _)
Match_KeepsPositional(params, a, k, ma, mk) ==
    IF params = <<>> THEN [args |-> ma, kwargs |-> mk]
    ELSE LET p == Head(params)
             rest == Tail(params)
         IN  CASE p.kind = PositionalOnly ->
                    IF a # <<>>
                    THEN Match_KeepsPositional(rest, Tail(a), k, Append(ma, Head(a)), mk)
                    ELSE Match_KeepsPositional(rest, a, k, ma, mk)
               [] p.kind = PositionalOrKeyword ->
                    IF p.name \in Keys(k)
                    THEN Match_KeepsPositional(rest, a, Without(k, p.name), ma,
                                               mk \cup {<<p.name, ValueOf(k, p.name)>>})
                    ELSE IF a # <<>>
                    THEN Match_KeepsPositional(rest, Tail(a), k, Append(ma, Head(a)), mk)
                    ELSE Match_KeepsPositional(rest, a, k, ma, mk)
               [] p.kind = VarPositional ->
                    Match_KeepsPositional(rest, <<>>, k, ma \o a, mk)
               [] p.kind = KeywordOnly ->
                    IF p.name \in Keys(k)
                    THEN Match_KeepsPositional(rest, a, Without(k, p.name), ma,
                                               mk \cup {<<p.name, ValueOf(k, p.name)>>})
                    ELSE Match_KeepsPositional(rest, a, k, ma, mk)
               [] p.kind = VarKeyword ->
                    Match_KeepsPositional(rest, a, {}, ma, mk \cup k)

\* The loop of _parameters_matching_signature over the parameters left, with
\* args_copy = a, kwargs_copy = k, matched_args = ma and matched_kwargs = mk.
RECURSIVE Match(_, _, _, _, _)
Match(params, a, k, ma, mk) ==
    IF params = <<>> THEN [args |-> ma, kwargs |-> mk]
    ELSE LET p == Head(params)
             rest == Tail(params)
         IN  CASE p.kind = PositionalOnly ->
                    IF a # <<>>
                    THEN Match(rest, Tail(a), k, Append(ma, Head(a)), mk)
                    ELSE Match(rest, a, k, ma, mk)
               [] p.kind = PositionalOrKeyword ->
                    IF p.name \in Keys(k)
                    THEN Match(rest, IF a # <<>> THEN Tail(a) ELSE a, Without(k, p.name),
                               ma, mk \cup {<<p.name, ValueOf(k, p.name)>>})
                    ELSE IF a # <<>>
                    THEN Match(rest, Tail(a), k, Append(ma, Head(a)), mk)
                    ELSE Match(rest, a, k, ma, mk)
               [] p.kind = VarPositional ->
                    Match(rest, <<>>, k, ma \o a, mk)
               [] p.kind = KeywordOnly ->
                    IF p.name \in Keys(k)
                    THEN Match(rest, a, Without(k, p.name), ma,
                               mk \cup {<<p.name, ValueOf(k, p.name)>>})
                    ELSE Match(rest, a, k, ma, mk)
               [] p.kind = VarKeyword ->
                    Match(rest, a, {}, ma, mk \cup k)

\* The parameters the matching looks at: all but those named self or cls.
Considered(sig) ==
    LET Kept(p) == p.name \notin {"self", "cls"}
    IN  SelectSeq(sig, Kept)

\* _parameters_matching_signature(signature, *args, **kwargs).
ParametersMatchingSignature(sig, a, k) == Match(Considered(sig), a, k, <<>>, {})

\* callable(*ma, **mk) as Python binds it: positional values fill the
\* positional parameters in order and the rest go to *args; keywords fill
\* the parameters of their name and the rest go to **kwargs. The call raises
\* TypeError for too many positional values, for a keyword no parameter
\* takes, for a parameter given twice and for a parameter given nothing.
Call(sig, ma, mk) ==
    LET IsPositional(p) == p.kind \in {PositionalOnly, PositionalOrKeyword}
        positional == SelectSeq(sig, IsPositional)
        filled == IF Len(ma) < Len(positional) THEN Len(ma) ELSE Len(positional)
        byPosition == {<<positional[i].name, ma[i]>> : i \in 1..filled}
        takesKeyword == {sig[i].name : i \in {j \in DOMAIN sig :
                            sig[j].kind \in {PositionalOrKeyword, KeywordOnly}}}
        required == {sig[i].name : i \in {j \in DOMAIN sig :
                            sig[j].kind \notin {VarPositional, VarKeyword}}}
        hasStar == \E i \in DOMAIN sig : sig[i].kind = VarPositional
        hasStarStar == \E i \in DOMAIN sig : sig[i].kind = VarKeyword
        byKeyword == {p \in mk : p[1] \in takesKeyword}
        errors ==
            (IF Len(ma) > Len(positional) /\ ~hasStar THEN {"too many positional"} ELSE {})
            \cup (IF Keys(byKeyword) \cap Keys(byPosition) # {} THEN {"multiple values"} ELSE {})
            \cup (IF Keys(mk) \ takesKeyword # {} /\ ~hasStarStar
                  THEN {"unexpected keyword"} ELSE {})
            \cup (IF required \ (Keys(byPosition) \cup Keys(byKeyword)) # {}
                  THEN {"missing"} ELSE {})
    IN  IF errors # {}
        THEN [called |-> TRUE, raised |-> errors, named |-> {}, star |-> <<>>,
              starstar |-> {}]
        ELSE [called |-> TRUE, raised |-> {}, named |-> byPosition \cup byKeyword,
              star |-> SubSeq(ma, filled + 1, Len(ma)),
              starstar |-> mk \ byKeyword]

\* The pools a machine hook is matched against: Transition.__call__ passes
\* the Transition first, then the supplied values.
HookPools(given) ==
    [args |-> <<TheTransition>> \o given.args, kwargs |-> given.kwargs]

\* The pools an action is matched against, as HookPools gives them.
ActionPools_TransitionFirst(given) ==
    [args |-> <<TheTransition>> \o given.args, kwargs |-> given.kwargs]

\* The pools an action is matched against: Transition._run_actions passes
\* the Transition under the keyword transition.
ActionPools(given) ==
    [args |-> given.args,
     kwargs |-> given.kwargs \cup {<<"transition", TheTransition>>}]

\* A callable of some signature is attached to a machine on which trigger or
\* enter_state is called with some values.
InitMatching ==
    /\ signature \in Signatures
    /\ supplied \in [args : SeqsUpTo(Values, MaxArgs),
                     kwargs : KeywordPools(KeyNames, Values)]
    /\ route = NULL
    /\ pools = NoValues
    /\ matched = NoValues
    /\ bound = NotCalled
    /\ state = NULL
    /\ last = state
    /\ _states = StateList
    /\ _events = EventList
    /\ op = NoOp
    /\ has_history = FALSE
    /\ _transitions = <<>>
    /\ InitEngine

\* The pools of a route are matched against the signature.
Matches(how, given) ==
    /\ route' = how
    /\ pools' = given
    /\ matched' = ParametersMatchingSignature(signature, given.args, given.kwargs)
    /\ UNCHANGED <<signature, supplied, bound, state, engine, registry, recorder>>

\* _call_with_matching_parameters(hook, transition, *args, **kwargs), up to
\* the call of the hook.
MatchHook ==
    /\ route = NULL
    /\ Matches("hook", HookPools(supplied))

\* Transition._run_actions and Action.__call__, up to the call of the action.
MatchAction ==
    /\ route = NULL
    /\ Matches("action", ActionPools(supplied))

\* The callable is called with what was matched.
Invoke ==
    /\ route # NULL
    /\ ~bound.called
    /\ bound' = Call(signature, matched.args, matched.kwargs)
    /\ UNCHANGED <<signature, supplied, route, pools, matched, state, engine,
                   registry, recorder>>

NextMatching ==
    \/ MatchHook
    \/ MatchAction
    \/ Invoke

SpecMatching == InitMatching /\ [][NextMatching]_vars


\* ------------------------------------------- callers that do not serialize

\* The events two unserialized callers trigger.
RaceEvents == {"turn_on", "turn_off"}

\* Each caller makes one call, whatever the other caller is doing: trigger
\* has no lock and its Transition suspends at every hook and action.
CanRace(c) == ncalls < MaxCalls /\ pc[c] = "idle"

RaceTrigger(c, name) == CanRace(c) /\ TriggerBody(c, name)

NextRace ==
    \E c \in Callers :
        \/ \E name \in RaceEvents : RaceTrigger(c, name)
        \/ \E v \in Outcomes : HookReturns(c, v)
        \/ \E a \in AllActions, v \in Outcomes : ActionReturns(c, a, v)
        \/ Join(c)
        \/ SetState(c)

SpecRace == Init /\ [][NextRace]_vars


\* ------------------------------------------ callers that hold a lock

\* The lock of the machine is free when every caller has released it; a
\* caller holds it from its call until it has observed the outcome.
CanLock(c) == /\ ncalls < MaxCalls
              /\ \A d \in Callers : pc[d] = "idle"

LockedTrigger(c, name) == CanLock(c) /\ TriggerBody(c, name)

LockedEnterState(c, name, given) == CanLock(c) /\ EnterStateBody(c, name, given)

\* The caller has observed the outcome of its call, keeps nothing of it and
\* releases the lock; the actions its Transition left running run on, with
\* their reference to the Transition.
Release(c) ==
    /\ pc[c] = "done"
    /\ pc' = [pc EXCEPT ![c] = "idle"]
    /\ tr' = [tr EXCEPT ![c] = IF running[c] = {} THEN NoTransition ELSE @]
    /\ results' = [results EXCEPT ![c] = {}]
    /\ late' = [late EXCEPT ![c] = {}]
    /\ outcome' = [outcome EXCEPT ![c] = Pending]
    /\ log' = [log EXCEPT ![c] = <<>>]
    /\ call' = [call EXCEPT ![c] = NoCall]
    /\ before' = [before EXCEPT ![c] = NULL]
    /\ stale' = [stale EXCEPT ![c] = FALSE]
    /\ UNCHANGED <<state, now, running, recall, ncalls, last, registry, recorder, matcher>>

NextLocked ==
    \E c \in Callers :
        \/ \E name \in EventNames \cup {Unknown} : LockedTrigger(c, name)
        \/ \E name \in States \cup {Unknown}, given \in TransitionTypes \cup {NULL} :
              LockedEnterState(c, name, given)
        \/ \E v \in Outcomes : HookReturns(c, v)
        \/ \E a \in AllActions, v \in Outcomes : ActionReturns(c, a, v)
        \/ Join(c)
        \/ SetState(c)
        \/ Release(c)

SpecLocked == Init /\ [][NextLocked]_vars


\* ------------------------------------------------------------- the claims

\* Reading the log and the results of caller c's Transition.
Invoked(c, e) == \E i \in DOMAIN log[c] : log[c][i] = e
Times(c, e) == Cardinality({i \in DOMAIN log[c] : log[c][i] = e})
Place(c, e) == CHOOSE i \in DOMAIN log[c] : log[c][i] = e
ActionsInvoked(c) == {log[c][i].what : i \in {j \in DOMAIN log[c] : log[c][j].op = "action"}}
HooksInvoked(c) == {log[c][i].what : i \in {j \in DOMAIN log[c] : log[c][j].op = "hook"}}
Falsy == {"False", NULL}
Done(c) == pc[c] = "done" /\ tr[c] # NoTransition

GuardHookRejected(c) ==
    \E r \in results[c] : /\ r.who = <<"guard_transition", 0>>
                          /\ r.value \in Falsy \cup {"AssertionError"}
GuardActionFalsy(c) ==
    \E r \in results[c] : r.who[1] = "guard" /\ r.value \in Falsy
GuardActionFailed(c) ==
    \E r \in results[c] : r.who[1] = "guard" /\ r.value = "Exception"
CancelledCleanly(c) ==
    /\ outcome[c] = Returned("False")
    /\ tr[c].cancelled = "True"
    /\ state = before[c]
    /\ ActionsInvoked(c) \subseteq {"guard"}

C2_BeforeHookAfterGuardPhase ==
    \A c \in Callers :
        Invoked(c, HookEntry("before_transition")) =>
            /\ Result(<<"guard_transition", 0>>, "True") \in results[c]
            /\ \A a \in ActionsOf(tr[c], "guard") : Result(a, "True") \in results[c]


\* The actions a Transition is expected to run on a state or on its event.
Expected(owner, type) ==
    IF owner = NULL THEN {} ELSE {ActionEntry(type, i) : i \in 1..NumActions}
EntriesOf(c, type) ==
    {log[c][i] : i \in {j \in DOMAIN log[c] : log[c][j].op = "action" /\ log[c][j].what = type}}
Before(c, e1, e2) == Place(c, e1) < Place(c, e2)
Succeeded(c) == Done(c) /\ outcome[c] = Returned("True")

\* Exit actions of the source, pointer write, on_transition, on actions and
\* entry actions of the target, each once and in this order.
ExitSetOnEntry(c) ==
    LET t == tr[c]
        exits == Expected(t.source, "exit")
        ons == Expected(t.event, "on")
        entries == Expected(t.target, "entry")
        set == SetEntry(t.target)
        hook == HookEntry("on_transition")
    IN  /\ EntriesOf(c, "exit") = exits
        /\ EntriesOf(c, "on") = ons
        /\ EntriesOf(c, "entry") = entries
        /\ \A e \in exits \cup ons \cup entries \cup {set, hook} : Times(c, e) = 1
        /\ \A i \in DOMAIN log[c] : log[c][i].op = "set" => log[c][i] = set
        /\ \A e \in exits : Before(c, e, set)
        /\ Before(c, set, hook)
        /\ \A e \in ons : Before(c, hook, e)
        /\ \A e \in entries : Before(c, hook, e) /\ \A o \in ons : Before(c, o, e)

\* C3: a successful external transition runs every exit action of the source
\* and every entry action of the target exactly once, in the order exit
\* actions, pointer set to the target, on_transition, on actions, entry
\* actions; no action of a phase is still running when the next step starts.
C3_ExternalOrder ==
    \A c \in Callers :
        /\ (Succeeded(c) /\ tr[c].type = External) =>
              /\ ExitSetOnEntry(c)
              /\ tr[c].source # tr[c].target
              /\ state = tr[c].target
        /\ (tr[c].type = External /\ pc[c] \in {"set", "on_transition"}) => running[c] = {}

C3_Witness ==
    /\ Succeeded("c1")
    /\ tr["c1"].type = External
    /\ tr["c1"].source = "Off"
    /\ tr["c1"].event = "turn_on"
    /\ state = "On"

MutationSteps == {"exit", "on_transition", "on", "entry"}
MutationFailures(c) ==
    {r \in results[c] : r.who[1] \in MutationSteps /\ r.value \in Raises}

\* C4: when an exit action, the on_transition hook, an on action or an entry
\* action raises, the call ends with the pointer back at the source, the same
\* failure raised to the caller, no after step run and no action run twice.
C4_MutationRollback ==
    \A c \in Callers :
        \A r \in MutationFailures(c) :
            /\ pc[c] = "done"
            /\ state = tr[c].source
            /\ state = before[c]
            /\ outcome[c].kind = r.value
            /\ outcome[c].what = r.who[1]
            /\ "after" \notin ActionsInvoked(c)
            /\ "after_transition" \notin HooksInvoked(c)
            /\ \A i \in DOMAIN log[c] : Times(c, log[c][i]) = 1
            /\ log[c][Len(log[c])] = RevertEntry(tr[c].source)

C4_Witness ==
    /\ \E r \in MutationFailures("c1") : r.who[1] = "entry"
    /\ tr["c1"].type = External
    /\ Invoked("c1", SetEntry("On"))
    /\ Invoked("c1", ActionEntry("exit", 1))
    /\ state = "Off"

C6_SelfExitsAndReenters ==
    \A c \in Callers :
        (Succeeded(c) /\ tr[c].type = Self) =>
            /\ tr[c].source = tr[c].target
            /\ ExitSetOnEntry(c)
            /\ EntriesOf(c, "exit") # {}
            /\ EntriesOf(c, "entry") # {}
            /\ state = before[c]
            /\ state = tr[c].target

C6_Witness ==
    /\ Succeeded("c1")
    /\ tr["c1"].type = Self
    /\ call["c1"] = EnterStateCall("On", NULL)
    /\ Invoked("c1", ActionEntry("exit", NumActions))
    /\ Invoked("c1", ActionEntry("entry", NumActions))


\* C7: calling a Transition that was already started raises and changes
\* nothing: no hook or action is invoked, and the pointer and the Transition's
\* started_at, finished_at and cancelled stay as they are.
C7_ExecutesAtMostOnce ==
    [][\A c \in Callers :
          (recall[c] = "none" /\ recall'[c] # "none") =>
              /\ recall'[c] = "RuntimeError"
              /\ state' = state
              /\ tr'[c] = tr[c]
              /\ pc'[c] = pc[c]
              /\ log'[c] = log[c]
              /\ running'[c] = running[c]
              /\ results'[c] = results[c]]_vars

C7_Witness ==
    /\ recall["c1"] = "RuntimeError"
    /\ Done("c1")
    /\ tr["c1"].cancelled = "True"
    /\ tr["c1"].finished_at # NoTime

\* C8 as stated: once the call has returned, started_at and finished_at are
\* set with finished_at not earlier than started_at; while a hook or an action
\* of the Transition runs, started_at is set and finished_at is still null.
C8_LifecycleTimes ==
    \A c \in Callers :
        /\ Done(c) =>
              /\ tr[c].started_at # NoTime
              /\ tr[c].finished_at # NoTime
              /\ tr[c].finished_at >= tr[c].started_at
        /\ (pc[c] \in Hooks \/ running[c] # {}) =>
              /\ tr[c].started_at # NoTime
              /\ tr[c].finished_at = NoTime

\* The source/target pair a type asks for.
PairFits(type, source, target) ==
    /\ type \in TransitionTypes
    /\ type \in {Internal, Self} => source = target
    /\ type = External => source # target

\* The type the latest call of caller c asked for, when the call got as far
\* as building a Transition; NULL when it did not.
RequestedType(c) ==
    IF call[c].op = "enter_state" /\ call[c].name \in States
    THEN (IF call[c].type_ # NULL THEN call[c].type_
          ELSE IF before[c] = call[c].name THEN Self ELSE External)
    ELSE IF /\ call[c].op = "trigger"
            /\ call[c].name \in EventNames
            /\ before[c] \in EventNamed(call[c].name).sources
            /\ ~(before[c] = NULL /\ EventNamed(call[c].name).target = ACTIVE)
    THEN (IF EventNamed(call[c].name).transition_type # NULL
          THEN EventNamed(call[c].name).transition_type ELSE External)
    ELSE NULL

RequestedTarget(c) ==
    IF call[c].op = "enter_state" THEN call[c].name
    ELSE IF EventNamed(call[c].name).target = ACTIVE THEN before[c]
    ELSE EventNamed(call[c].name).target

C10_TriggerChecksSources ==
    \A c \in Callers :
        (/\ pc[c] = "done"
         /\ call[c].op = "trigger"
         /\ call[c].name \in EventNames
         /\ before[c] \notin EventNamed(call[c].name).sources) =>
            /\ outcome[c] =
                  IF before[c] # NULL
                  THEN Raised("RuntimeError", "cannot be triggered from the current state",
                              call[c].name, before[c])
                  ELSE Raised("RuntimeError", "does not support initial state transitions",
                              call[c].name, NULL)
            /\ tr[c] = NoTransition
            /\ log[c] = <<>>
            /\ results[c] = {}
            /\ running[c] = {}
            /\ state = before[c]

C10_Witness ==
    /\ pc["c1"] = "done"
    /\ call["c1"] = TriggerCall("turn_on")
    /\ before["c1"] = "On"
    /\ outcome["c1"].kind = "RuntimeError"
    /\ outcome["c1"].state = "On"
    /\ state = "On"

\* The event of caller c's latest call, when that call was a trigger of a
\* registered event.
TriggeredEvent(c) == EventNamed(call[c].name)
IsTrigger(c) == call[c].op = "trigger" /\ call[c].name \in EventNames
EdgeTarget(c) ==
    IF TriggeredEvent(c).target = ACTIVE THEN before[c] ELSE TriggeredEvent(c).target

\* C11: a trigger call that returns True started in one of the event's
\* sources and ends in the event's target (the unchanged state for the
\* sentinel); whatever the outcome of a trigger call, the current state after
\* it differs from the one before it only along the event's edge.
C11_TriggerFollowsEdges ==
    \A c \in Callers :
        (pc[c] = "done" /\ IsTrigger(c)) =>
            /\ Succeeded(c) =>
                  /\ before[c] \in TriggeredEvent(c).sources
                  /\ state = EdgeTarget(c)
                  /\ state \in States
            /\ state # before[c] =>
                  /\ before[c] \in TriggeredEvent(c).sources
                  /\ state = EdgeTarget(c)

C11_Witness ==
    /\ Succeeded("c1")
    /\ call["c1"] = TriggerCall("turn_on")
    /\ before["c1"] = "Off"
    /\ state = "On"

\* The steps of __call__ that precede the mutation phase.
EarlySteps == {"guard_transition", "guard", "before_transition", "before"}

\* The failure reached caller c unchanged and the Transition stopped where the
\* pre-mutation steps leave it.
PropagatedEarly(c, exc) ==
    /\ pc[c] = "done"
    /\ outcome[c].kind = exc
    /\ state = tr[c].source
    /\ tr[c].cancelled = "False"
    /\ ActionsInvoked(c) \cap {"exit", "on", "entry", "after"} = {}
    /\ HooksInvoked(c) \cap {"on_transition", "after_transition"} = {}
    /\ ~Invoked(c, SetEntry(tr[c].target))

C13_AfterFailureKeepsTarget ==
    \A c \in Callers : \A r \in results[c] :
        (r.who[1] \in {"after", "after_transition"} /\ r.value \in Raises) =>
            /\ pc[c] = "done"
            /\ outcome[c].kind = r.value
            /\ state = tr[c].target
            /\ Invoked(c, SetEntry(tr[c].target))
            /\ ~Invoked(c, RevertEntry(tr[c].source))
            /\ tr[c].cancelled = "False"
            /\ r.who[1] = "after" => "after_transition" \notin HooksInvoked(c)

C13_Witness ==
    /\ Result(<<"after", 1>>, "Exception") \in results["c1"]
    /\ tr["c1"].source = "Off"
    /\ state = "On"
    /\ outcome["c1"].kind = "Exception"

\* The Transition of caller c got past its guard phase.
PassedGuards(c) ==
    \/ ActionsInvoked(c) \cap {"before", "exit"} # {}
    \/ Invoked(c, SetEntry(tr[c].target))

\* C14: once the guard_transition hook has accepted, every guard action of
\* the event has been invoked by the time the Transition is over, and the
\* Transition gets past its guard phase exactly when every guard action
\* returned a truthy value (always, when there is no guard action).
C14_GuardActionsConjoined ==
    \A c \in Callers :
        (Done(c) /\ Result(<<"guard_transition", 0>>, "True") \in results[c]) =>
            /\ \A a \in ActionsOf(tr[c], "guard") : Invoked(c, ActionEntry(a[1], a[2]))
            /\ PassedGuards(c) <=>
                  \A a \in ActionsOf(tr[c], "guard") : Result(a, "True") \in results[c]

\* What the guard phase of caller c's Transition gave.
GuardActionRejected(c) ==
    \E r \in results[c] : r.who[1] = "guard" /\ r.value = "AssertionError"
GuardActionRaised(c) ==
    \E r \in results[c] : r.who[1] = "guard" /\ r.value \in Raises
OtherFailure(r) == r.value \in Raises /\ ~IsRejection(r.who[1], r.value)
NullUntilStarted ==
    \A c \in Callers : tr[c].cancelled = NULL <=> tr[c].started_at = NoTime

Finished(c, type) ==
    \A a \in ActionsOf(tr[c], type) : a \notin running[c] /\ Result(a, NULL) \in results[c]

\* C16: in a successful Transition the before_transition hook is invoked
\* before every before action and the on_transition hook before every on
\* action; the after_transition hook is invoked only when every after action
\* has returned, and the after actions are started only when every entry
\* action that was started has returned.
C16_HookAndActionOrder ==
    \A c \in Callers :
        /\ Succeeded(c) =>
              /\ \A e \in EntriesOf(c, "before") : Before(c, HookEntry("before_transition"), e)
              /\ \A e \in EntriesOf(c, "on") : Before(c, HookEntry("on_transition"), e)
              /\ \A e \in EntriesOf(c, "after") : Before(c, e, HookEntry("after_transition"))
              /\ \A e \in EntriesOf(c, "entry"), f \in EntriesOf(c, "after") : Before(c, e, f)
              /\ Times(c, HookEntry("before_transition")) = 1
              /\ Times(c, HookEntry("on_transition")) = 1
              /\ Times(c, HookEntry("after_transition")) = 1
        /\ Invoked(c, HookEntry("after_transition")) => Finished(c, "after")
        /\ "after" \in ActionsInvoked(c) =>
              ("entry" \in ActionsInvoked(c) => Finished(c, "entry"))

C16_Witness ==
    /\ Succeeded("c1")
    /\ tr["c1"].type = External
    /\ EntriesOf("c1", "before") # {}
    /\ EntriesOf("c1", "on") # {}
    /\ EntriesOf("c1", "entry") # {}
    /\ EntriesOf("c1", "after") # {}

\* Pointer writes of caller c's Transition, and what its callbacks observe.
Writes(c) == Cardinality({i \in DOMAIN log[c] : log[c][i].op \in {"set", "revert"}})
Reverted(c) == Invoked(c, SetEntry(tr[c].target)) /\ Invoked(c, RevertEntry(tr[c].source))
Changes(c) ==
    IF tr[c].source = tr[c].target THEN 0
    ELSE Times(c, SetEntry(tr[c].target)) + (IF Reverted(c) THEN 1 ELSE 0)
RunningOf(c, types) == {a \in running[c] : a[1] \in types}
SourceSide == {"guard", "before", "exit"}
TargetSide == {"on", "entry", "after"}
SetBetweenExitAndOn(c) ==
    Invoked(c, SetEntry(tr[c].target)) =>
        /\ Times(c, SetEntry(tr[c].target)) = 1
        /\ "exit" \in ActionsInvoked(c) => Finished(c, "exit")
        /\ \A e \in EntriesOf(c, "exit") : Before(c, e, SetEntry(tr[c].target))
        /\ Invoked(c, HookEntry("on_transition")) =>
              Place(c, HookEntry("on_transition")) = Place(c, SetEntry(tr[c].target)) + 1

FailedInMutation(c) ==
    /\ Done(c)
    /\ outcome[c].kind \in Raises
    /\ InMutation(outcome[c].what)

\* C17: without serialization, a Transition whose mutation phase fails writes
\* the source it captured back into the pointer, whatever another Transition
\* has written there meanwhile; so a successful Transition's target can be
\* lost (the witness).
C17_RollbackWritesCapturedSource ==
    [][\A c \in Callers :
          (pc[c] # "done" /\ pc'[c] = "done" /\ outcome'[c].kind \in Raises
             /\ InMutation(outcome'[c].what)) => state' = tr[c].source]_vars

C17_Witness ==
    /\ Succeeded("c2")
    /\ tr["c2"].source = "Off"
    /\ tr["c2"].target = "On"
    /\ FailedInMutation("c1")
    /\ tr["c2"].finished_at < tr["c1"].finished_at
    /\ last = "On"
    /\ state = "Off"
    /\ state = tr["c1"].source

\* C18: trigger reads the pointer once, when it is called: the source of the
\* Transition is the state the call found, which the event allows, whatever
\* the pointer has become since; so an event can succeed on a state that its
\* sources exclude, with exit actions run for a state that is no longer
\* current (the witness).
C18_SourceCapturedAtCall ==
    \A c \in Callers :
        (tr[c] # NoTransition /\ IsTrigger(c)) =>
            /\ tr[c].source = before[c]
            /\ before[c] \in TriggeredEvent(c).sources
            /\ tr[c].target = EdgeTarget(c)

C18_Witness ==
    /\ Succeeded("c1")
    /\ Succeeded("c2")
    /\ IsTrigger("c1")
    /\ IsTrigger("c2")
    /\ tr["c1"].target # tr["c1"].source
    /\ tr["c1"].target \notin TriggeredEvent("c2").sources
    /\ tr["c1"].finished_at < tr["c2"].finished_at
    /\ stale["c2"]
    /\ ~stale["c1"]

\* C19: when callers hold the lock of the machine around their calls, the
\* source of every Transition is the current state during its guard, before
\* and exit steps, and once all calls are over the current state is the
\* target of the latest Transition that passed its mutation phase (the
\* initial state if there is none).
C19_LockKeepsSourceCurrent ==
    /\ \A c \in Callers : tr[c] # NoTransition =>
          /\ RunningOf(c, SourceSide) # {} => state = tr[c].source
          /\ pc[c] \in {"guard_transition", "before_transition"} => state = tr[c].source
    /\ (\A c \in Callers : pc[c] = "idle") => state = last

\* C21: the actions of a phase are started together and the phase waits for
\* all of them: the actions running are those of the phase under way, all of
\* them are in the log as soon as the phase is, and none runs any more once
\* the call has returned or raised.
C21_FanOutAndJoin ==
    \A c \in Callers :
        /\ \A a \in running[c] : a[1] = pc[c]
        /\ \A type \in ActionsInvoked(c) :
              \A a \in ActionsOf(tr[c], type) : Invoked(c, ActionEntry(a[1], a[2]))
        /\ pc[c] = "done" => running[c] = {}

\* The configured type of the event caller c triggered, external without one.
EventType(c) ==
    IF TriggeredEvent(c).transition_type # NULL
    THEN TriggeredEvent(c).transition_type ELSE External
Built(c) == tr[c] # NoTransition
Untouched(c) == state = before[c] /\ ~Built(c) /\ log[c] = <<>> /\ running[c] = {}

\* C22: for an event whose target is the active-state sentinel, the
\* Transition trigger builds has source and target equal to the current state
\* at trigger time, a typed such event triggered from one of its sources does
\* get its Transition, the pointer and the Transitions never hold the
\* sentinel, and on success the current state is the one before the call.
C22_SentinelIsCurrentState ==
    /\ state # ACTIVE
    /\ \A c \in Callers :
          /\ tr[c].source # ACTIVE /\ tr[c].target # ACTIVE
          /\ (pc[c] # "idle" /\ IsTrigger(c) /\ TriggeredEvent(c).target = ACTIVE) =>
                /\ Built(c) => (tr[c].source = before[c] /\ tr[c].target = before[c])
                /\ (/\ before[c] \in TriggeredEvent(c).sources \ {NULL}
                    /\ TriggeredEvent(c).transition_type \in {Internal, Self}) => Built(c)
                /\ Succeeded(c) => state = before[c]

C22_Witness ==
    /\ Succeeded("c1")
    /\ call["c1"] = TriggerCall("refresh")
    /\ before["c1"] = "On"
    /\ tr["c1"].source = "On"
    /\ tr["c1"].target = "On"
    /\ state = "On"

\* An untyped event triggered from a source that is also its resolved target.
UntypedSameState(c) ==
    /\ pc[c] = "done"
    /\ IsTrigger(c)
    /\ TriggeredEvent(c).transition_type = NULL
    /\ before[c] \in TriggeredEvent(c).sources
    /\ EdgeTarget(c) = before[c]
TypeIsEventTypeOrExternal ==
    \A c \in Callers : (pc[c] # "idle" /\ IsTrigger(c)) =>
        /\ Built(c) => tr[c].type = EventType(c)
        /\ (/\ before[c] \in TriggeredEvent(c).sources
            /\ ~(before[c] = NULL /\ EdgeTarget(c) = NULL)
            /\ PairFits(EventType(c), before[c], EdgeTarget(c))) => Built(c)

IsEnterState(c) == call[c].op = "enter_state" /\ call[c].name \in States

\* C24: enter_state builds a Transition without event from the current state
\* to the requested one, of the type given or else self when the machine is
\* in the requested state and external when it is not; no event's sources
\* stand in its way (the Transition is built whenever the type fits the
\* pair); the guard_transition hook is invoked, no guard, before, on or after
\* action runs, and on success the machine is in the requested state.
C24_EnterStateHasNoEvent ==
    \A c \in Callers : (pc[c] # "idle" /\ IsEnterState(c)) =>
        /\ PairFits(RequestedType(c), before[c], call[c].name) <=> Built(c)
        /\ Built(c) =>
              /\ tr[c].event = NULL
              /\ tr[c].source = before[c]
              /\ tr[c].target = call[c].name
              /\ tr[c].type = RequestedType(c)
              /\ Invoked(c, HookEntry("guard_transition"))
              /\ ActionsInvoked(c) \cap {"guard", "before", "on", "after"} = {}
        /\ ~Built(c) => (pc[c] = "done" /\ outcome[c].kind = "ValidationError" /\ Untouched(c))
        /\ Succeeded(c) => state = call[c].name

C24_Witness ==
    /\ Succeeded("c1")
    /\ call["c1"] = EnterStateCall("On", NULL)
    /\ before["c1"] = NULL
    /\ state = "On"
    /\ tr["c1"].type = External
    /\ ActionsInvoked("c1") = {"entry"}
    /\ \A e \in Events : ~(NULL \in e.sources /\ e.target = "On")

\* C25: while the machine has no current state, trigger builds a Transition
\* only for an event whose sources hold the null entry, and refuses the
\* others; that Transition has no source and runs no exit action; when it
\* succeeds every entry action of the target was run and the current state is
\* the target; an initial event whose target is the sentinel is refused as a
\* transition from no state to no state, the state staying null.
C25_InitialTransitions ==
    \A c \in Callers : (pc[c] # "idle" /\ IsTrigger(c) /\ before[c] = NULL) =>
        /\ Built(c) =>
              /\ NULL \in TriggeredEvent(c).sources
              /\ tr[c].source = NULL
              /\ tr[c].target = TriggeredEvent(c).target
              /\ "exit" \notin ActionsInvoked(c)
        /\ Succeeded(c) =>
              /\ state = TriggeredEvent(c).target
              /\ state \in States
              /\ Expected(tr[c].target, "entry") \subseteq EntriesOf(c, "entry")
              /\ Finished(c, "entry")
        /\ NULL \notin TriggeredEvent(c).sources =>
              /\ outcome[c] = Raised("RuntimeError", "does not support initial state transitions",
                                     call[c].name, NULL)
              /\ Untouched(c)
        /\ (NULL \in TriggeredEvent(c).sources /\ TriggeredEvent(c).target = ACTIVE) =>
              /\ outcome[c] = Raised("RuntimeError", "None to None", NULL, NULL)
              /\ Untouched(c)
              /\ state = NULL

C25_Witness ==
    /\ Succeeded("c1")
    /\ call["c1"] = TriggerCall("start")
    /\ before["c1"] = NULL
    /\ tr["c1"].source = NULL
    /\ state = "Off"
    /\ EntriesOf("c1", "entry") # {}

\* The call of caller c returns True in this step.
ReturnsTrue(c) ==
    pc[c] # "done" /\ pc'[c] = "done" /\ outcome'[c] = Returned("True")

\* The recorded Transitions are those of distinct calls, in call order, and
\* each has run from start to finish without being cancelled.
HistoryWellFormed ==
    \A i \in DOMAIN _transitions :
        /\ _transitions[i].call \in 1..ncalls
        /\ i > 1 => _transitions[i - 1].call < _transitions[i].call
        /\ _transitions[i].transition.started_at # NoTime
        /\ _transitions[i].transition.finished_at # NoTime
        /\ _transitions[i].transition.finished_at >= _transitions[i].transition.started_at
        /\ _transitions[i].transition.cancelled = "False"

\* C26: with history, a call that returns True has appended its Transition
\* to the log; no other step changes the log, except clear_history, which
\* empties it; so the log holds the Transitions of the calls that returned
\* True since it was last cleared, once each and in call order, each with
\* started_at and finished_at set and finished_at >= started_at.
C26_HistoryOfSuccesses ==
    [][/\ \A c \in Callers :
             ReturnsTrue(c) =>
                 _transitions' = Append(_transitions, HistoryEntry(ncalls, tr'[c]))
       /\ (~ \E c \in Callers : ReturnsTrue(c)) =>
             \/ _transitions' = _transitions
             \/ _transitions' = <<>> /\ UNCHANGED <<state, engine>>
       /\ HistoryWellFormed']_vars

C26_Witness ==
    /\ Len(_transitions) = 2
    /\ _transitions[1].call = 1
    /\ _transitions[2].call = 2
    /\ _transitions[1].transition.target = "On"
    /\ _transitions[2] = HistoryEntry(2, tr["c1"])
    /\ Succeeded("c1")

\* Reading the registry.
Distinct(q) == \A i, j \in DOMAIN q : q[i] = q[j] => i = j
StateNames == _states
EventNamesOf(q) == [i \in DOMAIN q |-> q[i].name]
RealStates(e) == EventStates(e) \ {ACTIVE}
References(e, s) == s \in e.sources \/ s = e.target

\* C27: the registered state names are pairwise distinct, the registered
\* event names are pairwise distinct, and every registered event references
\* registered states only.
C27_RegistryInvariant ==
    /\ Distinct(StateNames)
    /\ Distinct(EventNamesOf(_events))
    /\ \A e \in Range(_events) : RealStates(e) \subseteq Range(_states)

\* What a step of the registry did.
Did(kind) == op'.kind = kind
Failed == op'.raised # NULL
RegistryUntouched == _states' = _states /\ _events' = _events /\ state' = state

\* C28: add_state fails exactly when the name is registered; add_event fails
\* exactly when the name is registered or a source other than null or a
\* target other than the sentinel is not registered; a failure leaves the
\* states, the events and the current state as they were, and otherwise the
\* item is appended to its list.
C28_FailedRegistrationChangesNothing ==
    [][/\ Did("add_state") =>
             /\ Failed <=> HasState(op'.arg)
             /\ Failed => RegistryUntouched
             /\ ~Failed => /\ _states' = Append(_states, op'.arg)
                           /\ _events' = _events
                           /\ state' = state
       /\ Did("add_event") =>
             /\ Failed <=> \/ HasEvent(op'.arg.name)
                           \/ RealStates(op'.arg) \ Range(_states) # {}
             /\ Failed => RegistryUntouched
             /\ ~Failed => /\ _events' = Append(_events, op'.arg)
                           /\ _states' = _states
                           /\ state' = state]_vars

\* C29: add_event accepts an event whose target is the sentinel whenever its
\* name is not registered and its sources other than null are.
C29_SentinelTargetCanBeRegistered ==
    [][(/\ Did("add_event")
        /\ op'.arg.target = ACTIVE
        /\ ~HasEvent(op'.arg.name)
        /\ (op'.arg.sources \ {NULL}) \subseteq Range(_states)) =>
            (~Failed /\ _events' = Append(_events, op'.arg))]_vars

\* C30: remove_state of a registered state s leaves the states without s and
\* the events without those that have s among their sources or as target,
\* the others in their order; afterwards s is not registered and no
\* registered event references it.
C30_RemoveStateCascades ==
    [][(Did("remove_state") /\ HasState(op'.arg)) =>
          LET s == op'.arg
              Other(x) == x # s
              Keeps(e) == ~References(e, s)
          IN  /\ ~Failed
              /\ _states' = SelectSeq(_states, Other)
              /\ _events' = SelectSeq(_events, Keeps)
              /\ s \notin Range(_states')
              /\ \A e \in Range(_events') : ~References(e, s)]_vars

\* C31: the constructor given an initial state leaves the current-state
\* pointer on that state and invokes no hook and no action: until the first
\* call nothing is logged, runs or has returned and no Transition exists;
\* hooks and actions, the entry actions of the initial state among them, are
\* invoked only within a call of trigger or enter_state.
C31_ConstructionRunsNothing ==
    /\ ncalls = 0 =>
          /\ state = last
          /\ \A c \in Callers :
                /\ log[c] = <<>>
                /\ running[c] = {} /\ results[c] = {} /\ late[c] = {}
                /\ tr[c] = NoTransition
                /\ outcome[c] = Pending
    /\ \A c \in Callers :
          (ActionsInvoked(c) \cup HooksInvoked(c) # {}) =>
              call[c].op \in {"trigger", "enter_state"}

\* The machine was constructed in On, and a later enter_state(On) is running
\* On's entry actions.
C31_Witness ==
    /\ ncalls = 1
    /\ IsEnterState("c1") /\ call["c1"].name = "On"
    /\ before["c1"] = "On"
    /\ "entry" \in ActionsInvoked("c1")

\* A signature that declares the transition and then pass-through parameters.
PassThrough(sig) ==
    /\ sig # <<>>
    /\ sig[1] = [name |-> "transition", kind |-> PositionalOrKeyword]
    /\ \A i \in 2..Len(sig) : sig[i].kind \in {PositionalOrKeyword, VarPositional}

\* What a machine hook of the signature is called with, for the values supplied.
HookReceives ==
    LET given == HookPools(supplied)
        m == ParametersMatchingSignature(signature, given.args, given.kwargs)
    IN  Call(signature, m.args, m.kwargs)

\* C32: an action that declares the transition followed by pass-through
\* parameters is called, for every list of positional values supplied, with
\* the transition and the supplied values in order, exactly as a machine
\* hook of the same signature is.
C32_ActionsReceiveWhatHooksReceive ==
    (/\ route = "action"
     /\ bound.called
     /\ PassThrough(signature)
     /\ supplied.kwargs = {}) =>
        bound = HookReceives

\* The positional parameters the matching considers: the i-th of them meets
\* the i-th positional value, if there is one.
Positionals ==
    LET IsPositional(p) == p.kind \in {PositionalOnly, PositionalOrKeyword}
    IN  SelectSeq(Considered(signature), IsPositional)
Met == IF Len(pools.args) < Len(Positionals) THEN Len(pools.args) ELSE Len(Positionals)
ByKeyword(i) ==
    /\ Positionals[i].kind = PositionalOrKeyword
    /\ Positionals[i].name \in Keys(pools.kwargs)

\* The values at the positions in I, in the order of the positions.
Picked(q, I) ==
    [j \in 1..Cardinality(I) |->
        q[CHOOSE i \in I : Cardinality({m \in I : m <= i}) = j]]

\* C33: a positional-or-keyword parameter whose name is a key of the keyword
\* values gets its value by keyword, and the positional value it meets, if
\* any, is given to nobody; every other positional parameter gets the
\* positional value it meets, if any; what is left goes to *args only.
C33_KeywordPrecedence ==
    route # NULL =>
        LET taken == {i \in 1..Met : ~ByKeyword(i)}
            hasStar == \E i \in DOMAIN signature : signature[i].kind = VarPositional
            rest == IF hasStar THEN SubSeq(pools.args, Met + 1, Len(pools.args))
                    ELSE <<>>
        IN  /\ matched.args = Picked(pools.args, taken) \o rest
            /\ \A i \in 1..Len(Positionals) :
                  ByKeyword(i) =>
                      <<Positionals[i].name, ValueOf(pools.kwargs, Positionals[i].name)>>
                          \in matched.kwargs
            /\ matched.kwargs \subseteq pools.kwargs

\* An action (transition, x) is matched against two positional values and
\* the transition by keyword: the first value is given to nobody, x gets
\* the second.
C33_Witness ==
    /\ route = "action"
    /\ signature = <<[name |-> "transition", kind |-> PositionalOrKeyword],
                     [name |-> "x", kind |-> PositionalOrKeyword]>>
    /\ pools.args = <<"v1", "v2">>
    /\ pools.kwargs = {<<"transition", TheTransition>>}
    /\ matched.args = <<"v2">>
    /\ matched.kwargs = {<<"transition", TheTransition>>}

\* The ways a call fails because it was given what the callable cannot take.
Conflicts == {"too many positional", "unexpected keyword", "multiple values"}

\* C34: what the matching yields binds to the signature without conflict,
\* whatever the signature and the values: no keyword the signature lacks,
\* no more positional values than it takes, no parameter given twice; and a
\* callable without parameters is given nothing.
C34_MatchedValuesBind ==
    /\ bound.called => bound.raised \cap Conflicts = {}
    /\ (route # NULL /\ signature = <<>>) => matched = NoValues

\* C35: whatever was added to and removed from the registry, the current
\* state is null or one of the registered states.
C35_CurrentStateIsRegistered ==
    state = NULL \/ state \in Range(_states)

\* C36: once a Transition has passed its mutation phase the current state is
\* not null again, whatever later Transitions are rejected, fail or are
\* rolled back; a rollback writes null only when the source of the failed
\* Transition, one made from no current state, was null.
C36_NeverNullAgain ==
    /\ last # NULL => state # NULL
    /\ \A c \in Callers :
          Invoked(c, RevertEntry(NULL)) =>
              tr[c].source = NULL /\ before[c] = NULL /\ last = NULL

\* The first call, made from no current state, succeeded and is in the
\* history; the second failed in its mutation phase and was rolled back, to
\* a current state that is not null.
C36_Witness ==
    /\ Len(_transitions) = 1
    /\ _transitions[1].call = 1
    /\ _transitions[1].transition.source = NULL
    /\ ncalls = 2
    /\ FailedInMutation("c1")
    /\ Invoked("c1", RevertEntry(state))
    /\ state # NULL

====
